---- MODULE Spec2Model ----
(***************************************************************************)
(* WTForm (wtform/forms.py): rendering of a newforms Form through a layout *)
(* tree of field names, Fieldset, Columns and HTML nodes.                  *)
(*                                                                         *)
(* HTML text is modelled as a sequence of tokens [k |-> kind, v |-> text], *)
(* where text is a sequence of characters (one-character strings, or an    *)
(* opaque word).  String concatenation is \o, ''.join is join.             *)
(***************************************************************************)
EXTENDS Integers, Sequences, FiniteSets, TLC

VARIABLES Meta, fields, errors, layout, prefix, top_errors, result

vars == <<Meta, fields, errors, layout, prefix, top_errors, result>>

-----------------------------------------------------------------------------
(* Bounds of the model *)

\* number of fields the form class declares
NumFields == 3
\* number of validation messages of a field that failed validation
MaxErrors == 1
\* direct render_field/render_fields calls are made while self.prefix is shorter
MaxPrefix == 1

-----------------------------------------------------------------------------
(* The form class under test: declared fields, in declaration order *)

AllNames == <<"name", "token", "email", "phone">>

\* self.fields.keys(): the declared names in declaration order (SortedDict)
keys == SubSeq(AllNames, 1, NumFields)

NameSet == {keys[i] : i \in 1..Len(keys)}

\* a name no field of the form carries
Bogus == "nickname"

\* the field instance declared under a name; its widget decides is_hidden
FieldDef(n, w) ==
    [type      |-> IF n = "email" THEN "EmailField" ELSE "CharField",
     widget    |-> w,
     required  |-> n \in {"name", "phone"},
     label     |-> IF n = "token" THEN <<>> ELSE <<n, "&", "Co">>,
     help_text |-> IF n = "email" THEN <<"<", "we never share">> ELSE <<>>]

\* the validation messages of a field that failed validation (raw text)
Msg(n, i) == IF i % 2 = 1 THEN <<"<", n>> ELSE <<n, "&">>

Msgs(n) == [i \in 1..MaxErrors |-> Msg(n, i)]

-----------------------------------------------------------------------------
(* Text helpers *)

Tok(k, v) == [k |-> k, v |-> v]

\* django.utils.html.escape, character by character
EscChar(c) ==
    CASE c = "&"  -> "&amp;"
      [] c = "<"  -> "&lt;"
      [] c = ">"  -> "&gt;"
      [] c = "\"" -> "&quot;"
      [] c = "'"  -> "&#39;"
      [] OTHER    -> c

escape(s) == [i \in 1..Len(s) |-> EscChar(s[i])]

\* separator.join(list): list is a sequence of texts
RECURSIVE join(_, _)
join(separator, list) ==
    IF Len(list) = 0 THEN <<>>
    ELSE IF Len(list) = 1 THEN list[1]
    ELSE list[1] \o separator \o join(separator, Tail(list))

error_list(errs) ==
    <<Tok("ul", <<"errors">>), Tok("li", <<>>)>>
    \o join(<<Tok("/li", <<>>), Tok("li", <<>>)>>,
            [i \in 1..Len(errs) |-> <<Tok("text", errs[i])>>])
    \o <<Tok("/li", <<>>), Tok("/ul", <<>>)>>

-----------------------------------------------------------------------------
(* Layout nodes *)

\* a Python tuple of layout nodes, and a value that cannot be iterated
Tuple(items) == [iterable |-> TRUE, items |-> items]
NotIterable == [iterable |-> FALSE, items |-> <<>>]

Node(t, name, legend_html, flds, columns, css_class, html) ==
    [t |-> t, name |-> name, legend_html |-> legend_html, fields |-> flds,
     columns |-> columns, css_class |-> css_class, html |-> html]

\* a bare string in the layout: a field name
Name(n) == Node("str", n, <<>>, Tuple(<<>>), <<>>, "", <<>>)

\* Fieldset, were the legend element built for every legend
Fieldset_legend_always(legend, flds) ==
    Node("Fieldset", "", <<Tok("legend", legend)>>, Tuple(flds), <<>>, "", <<>>)

Fieldset(legend, flds) ==
    Node("Fieldset", "",
         IF Len(legend) > 0 THEN <<Tok("legend", legend)>> ELSE <<>>,
         Tuple(flds), <<>>, "", <<>>)

NoKwargs == [k \in {} |-> ""]
CssClass(c) == [k \in {"css_class"} |-> c]

Columns(columns, kwargs) ==
    Node("Columns", "", <<>>, Tuple(<<>>), columns,
         IF "css_class" \in DOMAIN kwargs /\ kwargs["css_class"] # ""
         THEN kwargs["css_class"] ELSE "yui-g",
         <<>>)

HTML(html) == Node("HTML", "", <<>>, Tuple(<<>>), <<>>, "", html)

-----------------------------------------------------------------------------
(* Rendering.  The accumulators self.prefix and self.top_errors are threaded *)
(* through the calls as st; a call yields [exc, out, prefix, top_errors],  *)
(* exc = "" when it returns and the exception's name when it raises.       *)

State(p, t) == [prefix |-> p, top_errors |-> t]

Return(out, st) ==
    [exc |-> "", out |-> out, prefix |-> st.prefix, top_errors |-> st.top_errors]

Raise(exc, st) ==
    [exc |-> exc, out |-> <<>>, prefix |-> st.prefix, top_errors |-> st.top_errors]

\* BoundField: is_hidden is the widget's, unicode(bf) is the rendered widget
is_hidden(field) == fields[field].widget = "HiddenInput"

Widget(field) == <<Tok("widget", <<field>>)>>

\* WTForm.render_field: the error list of the bound field (inline form)
bf_errors(field) ==
    IF Len(errors[field]) > 0
    THEN error_list([i \in 1..Len(errors[field]) |-> escape(errors[field][i])])
    ELSE <<>>

\* render_hidden, were the hidden widget also left in place
render_hidden_inline(field, st) ==
    Return(Widget(field),
           State(Append(st.prefix, Widget(field)),
                 IF Len(bf_errors(field)) > 0
                 THEN st.top_errors \o errors[field]
                 ELSE st.top_errors))

\* WTForm.render_field: a hidden field goes to the top of the form
render_hidden(field, st) ==
    Return(<<>>,
           State(Append(st.prefix, Widget(field)),
                 IF Len(bf_errors(field)) > 0
                 THEN st.top_errors \o errors[field]
                 ELSE st.top_errors))

\* WTForm.render_field: a visible field is rendered in place
render_visible(field, st) ==
    LET field_instance == fields[field]
        css_class == <<field_instance.type, field_instance.widget>>
                     \o (IF field_instance.required THEN <<"Required">> ELSE <<>>)
        label == IF Len(field_instance.label) > 0
                 THEN <<Tok("label", escape(field_instance.label))>>
                 ELSE <<>>
        help_text == IF Len(field_instance.help_text) > 0
                     THEN <<Tok("span", escape(field_instance.help_text))>>
                     ELSE <<>>
    IN Return(<<Tok("div", <<"field">> \o css_class)>>
              \o label \o help_text \o bf_errors(field)
              \o <<Tok("div", <<"input">>)>> \o Widget(field)
              \o <<Tok("/div", <<>>), Tok("/div", <<>>), Tok("nl", <<>>)>>,
              st)

\* render_field, were the KeyError swallowed
render_field_swallow(field, st) ==
    IF field \notin DOMAIN fields THEN Return(<<>>, st)
    ELSE IF is_hidden(field) THEN render_hidden(field, st)
    ELSE render_visible(field, st)

\* WTForm.render_field
render_field(field, st) ==
    IF field \notin DOMAIN fields THEN Raise("NoSuchFormField", st)
    ELSE IF is_hidden(field) THEN render_hidden(field, st)
    ELSE render_visible(field, st)

RECURSIVE render_fields(_, _, _)
RECURSIVE render_fields_loop(_, _, _)
RECURSIVE Fieldset_as_html(_, _)
RECURSIVE Columns_as_html(_, _)
RECURSIVE Columns_loop(_, _, _, _)

\* HTML.as_html
HTML_as_html(self, st) == Return(<<Tok("html", self.html)>>, st)

\* Fieldset.as_html
Fieldset_as_html(self, st) ==
    LET r == render_fields(self.fields, <<>>, st)
    IN IF r.exc # "" THEN r
       ELSE Return(<<Tok("fieldset", <<>>)>> \o self.legend_html \o r.out
                   \o <<Tok("/fieldset", <<>>)>>, r)

\* Columns_loop, were first never cleared after the first column
RECURSIVE Columns_loop_first_kept(_, _, _, _)
Columns_loop_first_kept(columns, output, first, st) ==
    IF Len(columns) = 0 THEN Return(output, st)
    ELSE LET r == render_fields(Head(columns), <<>>, st)
         IN IF r.exc # "" THEN r
            ELSE Columns_loop_first_kept(Tail(columns),
                                         Append(output,
                                                <<Tok("div", <<"yui-u">> \o first)>>
                                                \o r.out \o <<Tok("/div", <<>>)>>),
                                         first, r)

\* Columns.as_html: the loop over self.columns
Columns_loop(columns, output, first, st) ==
    IF Len(columns) = 0 THEN Return(output, st)
    ELSE LET r == render_fields(Head(columns), <<>>, st)
         IN IF r.exc # "" THEN r
            ELSE Columns_loop(Tail(columns),
                              Append(output,
                                     <<Tok("div", <<"yui-u">> \o first)>>
                                     \o r.out \o <<Tok("/div", <<>>)>>),
                              <<>>, r)

\* Columns.as_html
Columns_as_html(self, st) ==
    LET r == Columns_loop(self.columns,
                          << <<Tok("div", <<self.css_class>>)>> >>,
                          <<"first">>, st)
    IN IF r.exc # "" THEN r
       ELSE Return(join(<<>>, Append(r.out, <<Tok("/div", <<>>)>>)), r)

\* WTForm.render_fields: the loop over fields
render_fields_loop(items, output, st) ==
    IF Len(items) = 0 THEN Return(output, st)
    ELSE LET field == Head(items)
             r == CASE field.t = "Columns"  -> Columns_as_html(field, st)
                    [] field.t = "Fieldset" -> Fieldset_as_html(field, st)
                    [] field.t = "HTML"     -> HTML_as_html(field, st)
                    [] OTHER                -> render_field(field.name, st)
         IN IF r.exc # "" THEN r
            ELSE render_fields_loop(Tail(items), Append(output, r.out), r)

Reverse(seq) == [i \in 1..Len(seq) |-> seq[Len(seq) + 1 - i]]

\* render_fields, were the fragments joined last to first
render_fields_reversed(flds, separator, st) ==
    IF ~flds.iterable THEN Raise("TypeError", st)
    ELSE LET r == render_fields_loop(flds.items, <<>>, st)
         IN IF r.exc # "" THEN r
            ELSE Return(join(separator, Reverse(r.out)), r)

\* WTForm.render_fields
render_fields(flds, separator, st) ==
    IF ~flds.iterable THEN Raise("TypeError", st)
    ELSE LET r == render_fields_loop(flds.items, <<>>, st)
         IN IF r.exc # "" THEN r
            ELSE Return(join(separator, r.out), r)

\* init_layout, were the keys of the default layout taken from an unordered dict
init_layout_unordered(meta) ==
    IF meta.has_layout THEN meta.layout
    ELSE Tuple([i \in 1..Len(keys) |-> Name(keys[Len(keys) + 1 - i])])

\* init_layout, were a layout that cannot be iterated replaced by the default
init_layout_fallback(meta) ==
    IF meta.has_layout /\ meta.layout.iterable THEN meta.layout
    ELSE Tuple([i \in 1..Len(keys) |-> Name(keys[i])])

\* WTForm.__init__: the layout of the instance
init_layout(meta) ==
    IF meta.has_layout THEN meta.layout
    ELSE Tuple([i \in 1..Len(keys) |-> Name(keys[i])])

-----------------------------------------------------------------------------
(* The form classes under test: what class Meta declares as layout *)

F1 == keys[1]
F2 == keys[2]
FL == keys[Len(keys)]

NoMeta == [has_layout |-> FALSE, layout |-> Tuple(<<>>)]
MetaLayout(l) == [has_layout |-> TRUE, layout |-> l]

Person == <<"P", "e", "r", "s", "o", "n">>
Rule == <<"<", "h", "r", ">">>

Layouts ==
    { Tuple(<<>>),
      Tuple(<<Name(F1)>>),
      Tuple(<<Name(F2), Name(F1)>>),
      Tuple(<<Name(F1), Name(F2), Name(F1)>>),
      Tuple([i \in 1..Len(keys) |-> Name(keys[Len(keys) + 1 - i])]),
      Tuple(<<Columns(<<Tuple(<<Name(F1)>>), Tuple(<<Name(F2)>>)>>, NoKwargs)>>),
      Tuple(<<Fieldset(Person,
                       <<Columns(<<Tuple(<<Name(F1)>>), Tuple(<<Name(F2)>>)>>,
                                 NoKwargs)>>),
              Name(FL)>>),
      Tuple(<<Fieldset(<<>>, <<Name(F2), Name(F1)>>), HTML(Rule), Name(FL)>>),
      Tuple(<<Columns(<<Tuple(<<Name(F1), Name(F2)>>), Tuple(<<Name(FL)>>)>>,
                      CssClass("yui-gc"))>>),
      Tuple(<<Columns(<<Tuple(<<Fieldset(<<>>, <<Name(F2)>>)>>),
                        Tuple(<<HTML(Rule), Name(F1)>>),
                        Tuple(<<>>)>>,
                      CssClass("")),
              Name(FL)>>),
      Tuple(<<Name(F1), Name(Bogus)>>),
      Tuple(<<Name(Bogus), Name(F2)>>),
      Tuple(<<Name(F2),
              Fieldset(Person,
                       <<Columns(<<Tuple(<<Name(F1)>>),
                                   Tuple(<<Name(Bogus), Name(FL)>>)>>,
                                 NoKwargs)>>),
              Name(FL)>>) }

\* the legends Fieldset nodes are built with
Legends == {<<>>, Person}

\* the names direct callers of render_field pass
DirectFields == {F1, F2, Bogus}

\* the separators direct callers of render_fields pass
Separators == {<<>>, <<Tok("br", <<>>)>>}

Metas == {NoMeta, MetaLayout(NotIterable)} \cup {MetaLayout(l) : l \in Layouts}

-----------------------------------------------------------------------------
(* The form instance *)

\* the outcome of the last call: its name, the exception it raised ("" if it
\* returned), the value it returned, and as_div's locals at its return
Result(op, exc, out, p, e, o) ==
    [op |-> op, exc |-> exc, out |-> out, prefix |-> p, errors |-> e, output |-> o]

\* WTForm.__init__
Init ==
    /\ \E hidden \in SUBSET NameSet :
         fields = [n \in NameSet |->
                      FieldDef(n, IF n \in hidden THEN "HiddenInput" ELSE "TextInput")]
    /\ \E invalid \in SUBSET NameSet :
         errors = [n \in NameSet |-> IF n \in invalid THEN Msgs(n) ELSE <<>>]
    /\ Meta \in Metas
    /\ layout = init_layout(Meta)
    /\ prefix = <<>>
    /\ top_errors = <<>>
    /\ result = Result("__init__", "", <<>>, <<>>, <<>>, <<>>)

\* Unsupported, were the call to return an empty string
Unsupported_silent(op) ==
    /\ result' = Result(op, "", <<>>, <<>>, <<>>, <<>>)
    /\ UNCHANGED <<Meta, fields, errors, layout, prefix, top_errors>>

\* WTForm.as_table, as_ul, as_p
Unsupported(op) ==
    /\ result' = Result(op, "NotImplementedError", <<>>, <<>>, <<>>, <<>>)
    /\ UNCHANGED <<Meta, fields, errors, layout, prefix, top_errors>>

as_table == Unsupported("as_table")
as_ul == Unsupported("as_ul")
as_p == Unsupported("as_p")

\* as_div_call, were the prefix left out of the returned text
as_div_call_no_prefix(st) ==
    LET r == render_fields(layout, <<>>, st)
        p == join(<<>>, r.prefix)
        e == IF Len(r.top_errors) > 0 THEN error_list(r.top_errors) ELSE <<>>
    IN IF r.exc # ""
       THEN [prefix |-> r.prefix, top_errors |-> r.top_errors,
             result |-> Result("as_div", r.exc, <<>>, <<>>, <<>>, <<>>)]
       ELSE [prefix |-> <<>>, top_errors |-> <<>>,
             result |-> Result("as_div", "", e \o r.out, p, e, r.out)]

\* WTForm.as_div: what the call leaves and yields, from accumulators st
as_div_call(st) ==
    LET r == render_fields(layout, <<>>, st)
        p == join(<<>>, r.prefix)
        e == IF Len(r.top_errors) > 0 THEN error_list(r.top_errors) ELSE <<>>
    IN IF r.exc # ""
       THEN [prefix |-> r.prefix, top_errors |-> r.top_errors,
             result |-> Result("as_div", r.exc, <<>>, <<>>, <<>>, <<>>)]
       ELSE [prefix |-> <<>>, top_errors |-> <<>>,
             result |-> Result("as_div", "", p \o e \o r.out, p, e, r.out)]

\* WTForm.as_div (a pass that raises is taken while self.prefix is short)
as_div ==
    LET c == as_div_call(State(prefix, top_errors))
    IN /\ c.result.exc = "" \/ Len(prefix) < MaxPrefix
       /\ prefix' = c.prefix
       /\ top_errors' = c.top_errors
       /\ result' = c.result
       /\ UNCHANGED <<Meta, fields, errors, layout>>

\* a direct call of form.render_fields(form.layout, separator)
RenderFields(separator) ==
    LET r == render_fields(layout, separator, State(prefix, top_errors))
    IN /\ Len(prefix) < MaxPrefix
       /\ prefix' = r.prefix
       /\ top_errors' = r.top_errors
       /\ result' = Result("render_fields", r.exc, r.out, <<>>, <<>>, <<>>)
       /\ UNCHANGED <<Meta, fields, errors, layout>>

\* a direct call of form.render_field(field)
RenderField(field) ==
    LET r == render_field(field, State(prefix, top_errors))
    IN /\ Len(prefix) < MaxPrefix
       /\ prefix' = r.prefix
       /\ top_errors' = r.top_errors
       /\ result' = Result("render_field", r.exc, r.out, <<>>, <<>>, <<>>)
       /\ UNCHANGED <<Meta, fields, errors, layout>>

Next ==
    \/ as_table
    \/ as_ul
    \/ as_p
    \/ as_div
    \/ \E separator \in Separators : RenderFields(separator)
    \/ \E field \in DirectFields : RenderField(field)

Spec == Init /\ [][Next]_vars

-----------------------------------------------------------------------------
(* Vocabulary of the properties *)

Hidden(n) == fields[n].widget = "HiddenInput"

\* the field names a layout references, left to right, depth first
RECURSIVE Leaves(_)
RECURSIVE ColumnLeaves(_)
Leaves(items) ==
    IF Len(items) = 0 THEN <<>>
    ELSE LET node == Head(items)
             here == CASE node.t = "str"      -> <<node.name>>
                       [] node.t = "Fieldset" -> Leaves(node.fields.items)
                       [] node.t = "Columns"  -> ColumnLeaves(node.columns)
                       [] OTHER               -> <<>>
         IN here \o Leaves(Tail(items))
ColumnLeaves(columns) ==
    IF Len(columns) = 0 THEN <<>>
    ELSE Leaves(Head(columns).items) \o ColumnLeaves(Tail(columns))

IsHiddenName(n) == n \in NameSet /\ Hidden(n)
IsVisibleName(n) == n \in NameSet /\ ~Hidden(n)

\* the names of the rendered widgets in a text, in order
IsWidget(t) == t.k = "widget"
WidgetNames(text) ==
    LET w == SelectSeq(text, IsWidget) IN [i \in 1..Len(w) |-> w[i].v[1]]

\* the error messages in a text, in order
IsText(t) == t.k = "text"
Texts(text) ==
    LET w == SelectSeq(text, IsText) IN [i \in 1..Len(w) |-> w[i].v]

Count(x, seq) == Cardinality({i \in 1..Len(seq) : seq[i] = x})

\* the raw messages of the fields named, in order
RECURSIVE ErrorsOf(_)
ErrorsOf(names) ==
    IF Len(names) = 0 THEN <<>> ELSE errors[Head(names)] \o ErrorsOf(Tail(names))

AsDivReturned == result.op = "as_div" /\ result.exc = ""

\* a step that is a call of as_div that returns
AsDivReturns == result'.op = "as_div" /\ result'.exc = ""

-----------------------------------------------------------------------------
(* C1 *)

-----------------------------------------------------------------------------
(* C2 *)

\* C2: in as_div's output the widgets of the hidden fields make up the prefix,
\* ahead of every visible fragment and wrapper; render_field returns the empty
\* string for a hidden field; the body holds nothing of a hidden field; the
\* messages of the hidden fields are in the one error list between prefix and
\* body, and a hidden field without errors adds none.
C2_HiddenHoisting ==
    [][AsDivReturns =>
         LET hidden == SelectSeq(Leaves(layout.items), IsHiddenName)
             visible == SelectSeq(Leaves(layout.items), IsVisibleName)
             top == Texts(result'.errors)
             raw == top_errors \o ErrorsOf(hidden)
         IN /\ result'.out = result'.prefix \o result'.errors \o result'.output
            /\ \A i \in 1..Len(result'.prefix) :
                  IsWidget(result'.prefix[i]) /\ Hidden(result'.prefix[i].v[1])
            /\ WidgetNames(result'.prefix)
                 = WidgetNames(join(<<>>, prefix)) \o hidden
            /\ \A n \in NameSet :
                  Hidden(n) =>
                     render_field(n, State(prefix, top_errors)).out = <<>>
            /\ WidgetNames(result'.output) = visible
            /\ Len(Texts(result'.output)) = Len(ErrorsOf(visible))
            /\ Len(top) = Len(raw)
            /\ \A i \in 1..Len(top) : top[i] \in {raw[i], escape(raw[i])}
            /\ Count(Tok("ul", <<"errors">>), result'.errors)
                 = (IF Len(raw) > 0 THEN 1 ELSE 0)
            /\ \A i \in 1..Len(result'.errors) :
                  result'.errors[i].k \in {"ul", "li", "text", "/li", "/ul"}]_vars

\* a nested hidden field with errors and a hidden field without, around visible ones
C2_Witness ==
    /\ AsDivReturned
    /\ Len(result.prefix) >= 2
    /\ Len(result.errors) > 0
    /\ Len(result.output) > 0
    /\ \E n \in NameSet : Hidden(n) /\ errors[n] = <<>> /\ Count(n, Leaves(layout.items)) > 0
    /\ \E i \in 1..Len(layout.items) : layout.items[i].t = "Fieldset"

-----------------------------------------------------------------------------
(* C3 *)

\* C3 (as claimed): two calls of as_div in a row return the same text, and
\* each leaves prefix and top_errors empty.
C3_Idempotent ==
    [][(AsDivReturned /\ AsDivReturns) =>
          /\ result'.out = result.out
          /\ prefix' = <<>>
          /\ top_errors' = <<>>]_vars

-----------------------------------------------------------------------------
(* C4 *)

\* C4 (as claimed): whatever was called before, the text as_div returns holds
\* no prefix fragment and no top-level error but those of its own pass.
C4_PassScoped ==
    AsDivReturned =>
        LET hidden == SelectSeq(Leaves(layout.items), IsHiddenName)
        IN /\ WidgetNames(result.prefix) = hidden
           /\ Len(Texts(result.errors)) = Len(ErrorsOf(hidden))

-----------------------------------------------------------------------------
(* C5 *)

HasUnresolved(items) ==
    \E i \in 1..Len(Leaves(items)) : Leaves(items)[i] \notin NameSet

\* C5: when the layout references, at any depth, a name that is no declared
\* field, as_div raises NoSuchFormField and returns nothing.
C5_FailsClosed ==
    (result.op = "as_div" /\ layout.iterable /\ HasUnresolved(layout.items)) =>
        /\ result.exc = "NoSuchFormField"
        /\ result.out = <<>>

\* the bad name sits in a column of a fieldset, after a hidden and a visible field
C5_Witness ==
    /\ result.op = "as_div"
    /\ result.exc = "NoSuchFormField"
    /\ Len(layout.items) = 3
    /\ layout.items[2].t = "Fieldset"
    /\ Hidden(F2)
    /\ ~Hidden(F1)
    /\ Len(prefix) > 0

-----------------------------------------------------------------------------
(* C6 *)

DefaultLayout == Tuple([i \in 1..Len(keys) |-> Name(keys[i])])

\* C6 (as claimed): without Meta.layout the layout is the declared names in
\* declaration order and the fields of as_div's output are in that order.
C6_DefaultOrder ==
    (~Meta.has_layout /\ AsDivReturned) =>
        /\ layout = DefaultLayout
        /\ WidgetNames(result.out) = keys

\* C6 (amended): without Meta.layout the layout is the declared names in
\* declaration order; in as_div's output the visible fields are in the body in
\* declaration order and the hidden fields the pass adds to the prefix are in
\* declaration order, ahead of the visible ones.
C6_DefaultOrderHoisted ==
    [][(~Meta.has_layout /\ AsDivReturns) =>
          /\ layout = DefaultLayout
          /\ WidgetNames(result'.output) = SelectSeq(keys, IsVisibleName)
          /\ WidgetNames(result'.prefix)
               = WidgetNames(join(<<>>, prefix)) \o SelectSeq(keys, IsHiddenName)
          /\ result'.out = result'.prefix \o result'.errors \o result'.output]_vars

\* the default layout, rendered with a hidden field declared after a visible one
C6_Witness ==
    /\ ~Meta.has_layout
    /\ AsDivReturned
    /\ ~Hidden(keys[1])
    /\ Hidden(keys[2])
    /\ WidgetNames(result.out) # keys

-----------------------------------------------------------------------------
(* C7 *)

\* the wrappers and widgets of a text, in order
IsShape(t) == t.k \in {"fieldset", "/fieldset", "div", "/div", "widget", "html"}
ShapeOf(t) ==
    CASE t.k = "fieldset"  -> "["
      [] t.k = "/fieldset" -> "]"
      [] t.k = "div"       -> "("
      [] t.k = "/div"      -> ")"
      [] t.k = "widget"    -> t.v[1]
      [] OTHER             -> "html"
Shape(text) ==
    LET w == SelectSeq(text, IsShape) IN [i \in 1..Len(w) |-> ShapeOf(w[i])]

\* the wrappers and visible fields of a layout, left to right, depth first
RECURSIVE Outline(_)
RECURSIVE ColumnOutline(_)
Outline(items) ==
    IF Len(items) = 0 THEN <<>>
    ELSE LET node == Head(items)
             here == CASE node.t = "str" ->
                            IF IsVisibleName(node.name)
                            THEN <<"(", "(", node.name, ")", ")">> ELSE <<>>
                       [] node.t = "Fieldset" ->
                            <<"[">> \o Outline(node.fields.items) \o <<"]">>
                       [] node.t = "Columns" ->
                            <<"(">> \o ColumnOutline(node.columns) \o <<")">>
                       [] OTHER -> <<"html">>
         IN here \o Outline(Tail(items))
ColumnOutline(columns) ==
    IF Len(columns) = 0 THEN <<>>
    ELSE <<"(">> \o Outline(Head(columns).items) \o <<")">>
         \o ColumnOutline(Tail(columns))

IsSeparator(t) == t.k = "br"

\* C7: the body render_fields and as_div return holds the visible fields and
\* the wrappers of the layout in the layout's order, left to right and depth
\* first, children inside their wrapper, with the separator between the
\* fragments of the top level.
C7_OrderPreserved ==
    /\ AsDivReturned => Shape(result.output) = Outline(layout.items)
    /\ (result.op = "render_fields" /\ result.exc = "") =>
          /\ Shape(result.out) = Outline(layout.items)
          /\ Len(SelectSeq(result.out, IsSeparator)) \in {0, Len(layout.items) - 1}

\* a fieldset around columns, two visible fields and a hidden one
C7_Witness ==
    /\ AsDivReturned
    /\ Len(layout.items) = 2
    /\ layout.items[1].t = "Fieldset"
    /\ Len(WidgetNames(result.output)) = 2
    /\ Len(result.prefix) = 1

\* a direct call that joins three fragments with a separator
C7_WitnessSeparator ==
    /\ result.op = "render_fields"
    /\ Len(SelectSeq(result.out, IsSeparator)) = 2

-----------------------------------------------------------------------------
(* C8 *)

UnsupportedOps == {"as_table", "as_ul", "as_p"}

\* C8: as_table, as_ul and as_p raise NotImplementedError in every state,
\* return nothing and leave layout, prefix and top_errors as they were.
C8_Unsupported ==
    [][result'.op \in UnsupportedOps =>
          /\ result'.exc = "NotImplementedError"
          /\ result'.out = <<>>
          /\ layout' = layout
          /\ prefix' = prefix
          /\ top_errors' = top_errors]_vars

\* as_p called on a form whose accumulators are not empty
C8_Witness ==
    /\ result.op = "as_p"
    /\ result.exc = "NotImplementedError"
    /\ Len(prefix) > 0
    /\ Len(top_errors) > 0

-----------------------------------------------------------------------------
(* C9 *)

EscapedMessages ==
    {escape(Msg(n, i)) : n \in NameSet, i \in 1..MaxErrors}

\* C9 (as claimed): every error message in as_div's output, also that of a
\* hidden field in the top-level list, is HTML-escaped.
C9_TopErrorsEscaped ==
    AsDivReturned =>
        \A i \in 1..Len(Texts(result.out)) :
            Texts(result.out)[i] \in EscapedMessages

-----------------------------------------------------------------------------
(* C10 *)

\* C10 (as claimed): a Meta.layout that cannot be iterated makes as_div fail
\* with InvalidLayoutError.
C10_InvalidLayoutError ==
    (Meta.has_layout /\ ~Meta.layout.iterable /\ result.op = "as_div") =>
        /\ result.exc = "InvalidLayoutError"
        /\ result.out = <<>>

\* C10 (amended): a Meta.layout that cannot be iterated is kept as the layout
\* and makes as_div fail with the TypeError of iterating it; as_div returns
\* nothing and the default layout is not used.
C10_TypeError ==
    (Meta.has_layout /\ ~Meta.layout.iterable) =>
        /\ layout = Meta.layout
        /\ result.op = "as_div" =>
              /\ result.exc = "TypeError"
              /\ result.out = <<>>

C10_Witness ==
    /\ Meta.has_layout
    /\ ~Meta.layout.iterable
    /\ result.op = "as_div"
    /\ result.exc = "TypeError"

-----------------------------------------------------------------------------
(* C11 *)

\* the Columns nodes of a layout, at any depth, left to right
RECURSIVE ColumnsIn(_)
RECURSIVE ColumnsInColumns(_)
ColumnsIn(items) ==
    IF Len(items) = 0 THEN <<>>
    ELSE LET node == Head(items)
             here == CASE node.t = "Fieldset" -> ColumnsIn(node.fields.items)
                       [] node.t = "Columns"  ->
                            <<node>> \o ColumnsInColumns(node.columns)
                       [] OTHER               -> <<>>
         IN here \o ColumnsIn(Tail(items))
ColumnsInColumns(columns) ==
    IF Len(columns) = 0 THEN <<>>
    ELSE ColumnsIn(Head(columns).items) \o ColumnsInColumns(Tail(columns))

IsOpen(t) == t.k \in {"div", "fieldset"}
IsClose(t) == t.k \in {"/div", "/fieldset"}

\* the number of wrappers open around the i-th token of a text
Depth(text, i) ==
    Cardinality({j \in 1..(i - 1) : IsOpen(text[j])})
    - Cardinality({j \in 1..(i - 1) : IsClose(text[j])})

\* the opening tokens of a text that sit inside d wrappers, in order
OpensAt(text, d) ==
    LET at == {i \in 1..Len(text) : IsOpen(text[i]) /\ Depth(text, i) = d}
        RECURSIVE pick(_)
        pick(i) == IF i > Len(text) THEN <<>>
                   ELSE (IF i \in at THEN <<text[i]>> ELSE <<>>) \o pick(i + 1)
    IN pick(1)

IsRegion(t) == t.k = "div" /\ Len(t.v) > 0 /\ t.v[1] = "yui-u"
IsFirstRegion(t) == IsRegion(t) /\ t.v = <<"yui-u", "first">>

RECURSIVE SumLen(_)
SumLen(nodes) ==
    IF Len(nodes) = 0 THEN 0 ELSE Len(Head(nodes).columns) + SumLen(Tail(nodes))

HasColumn(node) == Len(node.columns) > 0

\* C11: Columns.as_html returns one outer wrapper with the node's css_class
\* ("yui-g" when none is given) around one region wrapper per column, in
\* column order; the first region and no other carries "first", in every
\* pass that renders the node.
C11_ColumnsWrappers ==
    /\ \A i \in 1..Len(ColumnsIn(layout.items)) :
          LET self == ColumnsIn(layout.items)[i]
              r == Columns_as_html(self, State(prefix, top_errors))
              regions == OpensAt(r.out, 1)
          IN /\ Columns(self.columns, NoKwargs).css_class = "yui-g"
             /\ Columns(self.columns, CssClass("yui-gc")).css_class = "yui-gc"
             /\ r.exc = "" =>
                  /\ OpensAt(r.out, 0) = <<Tok("div", <<self.css_class>>)>>
                  /\ r.out[1] = Tok("div", <<self.css_class>>)
                  /\ r.out[Len(r.out)] = Tok("/div", <<>>)
                  /\ Len(regions) = Len(self.columns)
                  /\ \A j \in 1..Len(regions) :
                        regions[j].v = (IF j = 1 THEN <<"yui-u", "first">>
                                        ELSE <<"yui-u">>)
                  /\ Shape(r.out)
                       = <<"(">> \o ColumnOutline(self.columns) \o <<")">>
    /\ AsDivReturned =>
          LET nodes == ColumnsIn(layout.items)
          IN /\ Len(SelectSeq(result.output, IsRegion)) = SumLen(nodes)
             /\ Len(SelectSeq(result.output, IsFirstRegion))
                  = Len(SelectSeq(nodes, HasColumn))

\* a pass over a layout whose Columns node has three columns and an empty
\* css_class, with a hidden field in one of them
C11_Witness ==
    /\ AsDivReturned
    /\ prefix = <<>>
    /\ Len(ColumnsIn(layout.items)) = 1
    /\ Len(ColumnsIn(layout.items)[1].columns) = 3
    /\ ColumnsIn(layout.items)[1].css_class = "yui-g"
    /\ Len(SelectSeq(result.output, IsRegion)) = 3
    /\ Len(SelectSeq(result.output, IsFirstRegion)) = 1
    /\ Len(result.prefix) = 1

-----------------------------------------------------------------------------
(* C12 *)

\* the Fieldset nodes of a layout, at any depth, left to right
RECURSIVE FieldsetsIn(_)
RECURSIVE FieldsetsInColumns(_)
FieldsetsIn(items) ==
    IF Len(items) = 0 THEN <<>>
    ELSE LET node == Head(items)
             here == CASE node.t = "Fieldset" ->
                            <<node>> \o FieldsetsIn(node.fields.items)
                       [] node.t = "Columns"  -> FieldsetsInColumns(node.columns)
                       [] OTHER               -> <<>>
         IN here \o FieldsetsIn(Tail(items))
FieldsetsInColumns(columns) ==
    IF Len(columns) = 0 THEN <<>>
    ELSE FieldsetsIn(Head(columns).items) \o FieldsetsInColumns(Tail(columns))

IsLegend(t) == t.k = "legend"
IsFieldsetOpen(t) == t.k = "fieldset"
IsFieldsetClose(t) == t.k = "/fieldset"
HasLegend(node) == Len(node.legend_html) > 0

\* the positions of the legend elements directly inside the outer wrapper
LegendsAt(text) == {i \in 1..Len(text) : IsLegend(text[i]) /\ Depth(text, i) = 1}

\* C12: Fieldset.as_html returns one wrapper around the rendered children;
\* a legend element with the caption comes first inside it if and only if the
\* caption is not empty, and with an empty caption there is no legend element.
C12_FieldsetLegend ==
    /\ \A i \in 1..Len(FieldsetsIn(layout.items)) : \A legend \in Legends :
          LET kids == FieldsetsIn(layout.items)[i].fields.items
              st == State(prefix, top_errors)
              r == Fieldset_as_html(Fieldset(legend, kids), st)
              children == render_fields(Tuple(kids), <<>>, st)
          IN r.exc = "" =>
               /\ children.exc = ""
               /\ OpensAt(r.out, 0) = <<Tok("fieldset", <<>>)>>
               /\ r.out[1] = Tok("fieldset", <<>>)
               /\ r.out[Len(r.out)] = Tok("/fieldset", <<>>)
               /\ Len(legend) > 0 =>
                    /\ LegendsAt(r.out) = {2}
                    /\ r.out[2] = Tok("legend", legend)
                    /\ SubSeq(r.out, 3, Len(r.out) - 1) = children.out
               /\ Len(legend) = 0 =>
                    /\ LegendsAt(r.out) = {}
                    /\ SubSeq(r.out, 2, Len(r.out) - 1) = children.out
    /\ AsDivReturned =>
          LET nodes == FieldsetsIn(layout.items)
              body == result.output
          IN /\ Len(SelectSeq(body, IsFieldsetOpen)) = Len(nodes)
             /\ Len(SelectSeq(body, IsFieldsetClose)) = Len(nodes)
             /\ Len(SelectSeq(body, IsLegend)) = Len(SelectSeq(nodes, HasLegend))
             /\ \A j \in 1..Len(body) :
                   IsLegend(body[j]) =>
                      /\ Len(body[j].v) > 0
                      /\ j > 1
                      /\ IsFieldsetOpen(body[j - 1])

\* the legend "Person" around the output of a Columns node
C12_Witness ==
    /\ AsDivReturned
    /\ Len(result.output) > 3
    /\ result.output[1] = Tok("fieldset", <<>>)
    /\ result.output[2] = Tok("legend", Person)
    /\ result.output[3] = Tok("div", <<"yui-g">>)
    /\ Len(SelectSeq(result.output, IsRegion)) = 2

\* a fieldset built with an empty legend: the children follow the wrapper
C12_WitnessNoLegend ==
    /\ AsDivReturned
    /\ Len(FieldsetsIn(layout.items)) = 1
    /\ Len(SelectSeq(result.output, IsFieldsetOpen)) = 1
    /\ Len(SelectSeq(result.output, IsLegend)) = 0
    /\ Len(WidgetNames(result.output)) > 0

====
